---- MODULE Spec2Model ----
(***************************************************************************)
(* Model of the ISM43362 SPI driver, Core/Src/wifi.c: the framed receiver  *)
(* WIFI_SPI_Receive, the framed transmitter WIFI_SPI_Transmit, WIFI_Init,  *)
(* the command exchange WIFI_SendATCommand, the access-point bring-up      *)
(* WIFI_CreateNewNetwork and the trimming routine trimstr.                 *)
(*                                                                         *)
(* A C buffer `char b[n]` is a sequence of n bytes; C index i is b[i+1].   *)
(* A uint32_t value v is represented by the integer r of smallest          *)
(* magnitude with r = v (mod 2^32): a negative r stands for 2^32 + r, so   *)
(* 0 - 1 is the representation of 0xFFFFFFFF.  Unsigned `v > 0` is r # 0,  *)
(* unsigned `v < n` for a small n is 0 <= r < n.                           *)
(***************************************************************************)
EXTENDS Integers, Sequences, FiniteSets, TLC

VARIABLES
    \* ---- driver state ----
    pc,          \* position of the single thread of control
    api,         \* the driver function the application called last
    ready,       \* level of the CMDDATA_READY pin (driven by the module)
    nss,         \* TRUE while the SPI select line is asserted
    reset,       \* TRUE once WIFI_RESET_MODULE has pulsed the reset line
    buffer,      \* receive buffer handed to WIFI_SPI_Receive
    size,        \* its capacity
    cnt,         \* write cursor of WIFI_SPI_Receive (uint16_t)
    rxRet,       \* where WIFI_SPI_Receive returns to
    bCmd,        \* text of the command handed to WIFI_SendATCommand
    sizeCmd,     \* its declared size (terminator included)
    sent,        \* bytes handed to HAL_SPI_Transmit by the last transmit
    units,       \* number of 16-bit units of that transmit
    txCount,     \* transmits performed by the current call
    rxUnits,     \* units received by the current WIFI_SPI_Receive
    fault,       \* class of the fault escalated to Error_Handler, or "none"
    status,      \* what the last finished call returned
    trace,       \* events of the current WIFI_SendATCommand call
    calls,       \* calls made by the application so far
    everSent,    \* TRUE once a command was handed to the transport
    wild,        \* TRUE once an access left its array
    \* ---- WIFI_CreateNewNetwork ----
    hwifi,       \* the handle: securityType, passphrase, ssid, ipAddress
    step,        \* number of the exchange WIFI_CreateNewNetwork is at (1..5)
    issued,      \* commands it has handed to WIFI_SendATCommand, in order
    resp,        \* bytes received in answer to its status query, before trimstr
    ipOld,       \* hwifi.ipAddress when WIFI_CreateNewNetwork was called
    \* ---- trimstr on its own ----
    str,         \* the buffer trimstr works on
    c,           \* the character to trim
    under,       \* bytes equal to c lying directly below str in memory
    post,        \* non-null bytes lying directly above str in memory
    applied,     \* how many times trimstr has been applied
    orig,        \* str before the first application
    once,        \* str after the first application
    oob          \* TRUE once trimstr accessed an index outside str

drvVars == <<pc, api, ready, nss, reset, buffer, size, cnt, rxRet, bCmd, sizeCmd, sent,
             units, txCount, rxUnits, fault, status, trace, calls, everSent, wild>>
trimVars == <<str, c, under, post, applied, orig, once, oob>>
netVars == <<hwifi, step, issued, resp, ipOld>>
vars == <<drvVars, trimVars, netVars>>

----------------------------------------------------------------------------
\* Bounds of the model.
MaxCap == 4       \* largest receive-buffer capacity
MaxCmd == 2       \* longest command text
MaxCalls == 2     \* calls made by the application
MaxStr == 4       \* largest buffer handed to trimstr on its own
MaxUnder == 2     \* longest run of c directly below the buffer
MaxPost == 2      \* longest run of non-null bytes directly above the buffer

\* Program constants.
NUL == 0
WIFI_RX_PADDING == 21
WIFI_TX_PADDING == 10
WIFI_RX_BUFFER_SIZE == 4
\* Largest value of the uint16_t cursor and capacity of WIFI_SPI_Receive.
UINT16_MAX == 65535
WIFI_MSG_POWERUP == <<65>>
\* "," searched for by the strstr calls of lines 156-157.
COMMA == 44
\* "%", which starts a conversion in a snprintf format (lines 161, 257).
PERCENT == 37
\* sizeof(hwifi->ipAddress).
IpAddressSize == 2 * WIFI_RX_BUFFER_SIZE

\* Bytes the module can put on the wire and that memory can hold.
Byte == {NUL, WIFI_RX_PADDING, 65, 66}
\* Bytes of the module's answer to the status query of
\* WIFI_CreateNewNetwork, and of its answers to the four commands before
\* it, which the driver does not look at.
NetByte == {NUL, WIFI_RX_PADDING, COMMA, PERCENT}
AckByte == {NUL, WIFI_RX_PADDING, 65}
\* Text found where no string was placed: what a conversion prints for an
\* argument that was never passed, what strstr finds at an invalid address.
JunkText == {<<>>, <<WIFI_RX_PADDING>>, <<65, 65>>}
\* Non-null bytes found in the memory directly above a buffer.
Above == {WIFI_RX_PADDING, 65}

Min(S) == CHOOSE x \in S : \A y \in S : x <= y

SeqsUpTo(S, n) == UNION {[1..k -> S] : k \in 0..n}

\* The C string held by a buffer: the bytes before the first null (all of
\* them when the buffer holds no null).
CStr(b) ==
    LET nulls == {i \in 1..Len(b) : b[i] = NUL}
    IN  IF nulls = {} THEN b ELSE SubSeq(b, 1, Min(nulls) - 1)

HasNul(b) == \E i \in 1..Len(b) : b[i] = NUL

----------------------------------------------------------------------------
\* trimstr

\* The memory trimstr can reach: `below` bytes equal to ch directly below str
\* (then one byte that differs), the buffer, and directly above it the bytes
\* of `above` followed by a null.  Arena(s, above) is the part from str[0] on;
\* its index i is C index i of str.
Arena(s, above) == s \o above \o <<NUL>>

Mem(a, i, ch, below) ==
    IF i >= 0 THEN a[i + 1]
    ELSE IF 0 - i <= below THEN ch
         ELSE IF ch = NUL THEN WIFI_RX_PADDING ELSE NUL

\* str[i] = v; a store below str lands in the bytes counted by `below`.
Store(a, i, v) ==
    IF i >= 0 THEN [a EXCEPT ![i + 1] = v] ELSE a

\* Lines 230-236: the first index holding '\0', or 0 when there is none.
FindEnd(a, strSize) ==
    LET nulls == {i \in 0..(strSize - 1) : a[i + 1] = NUL}
    IN  IF nulls = {} THEN 0 ELSE Min(nulls)

\* BackScan without the store of line 244.
RECURSIVE BackScan_NoStore(_, _, _, _, _)
BackScan_NoStore(a, i, endPos, ch, below) ==
    IF i = 0 THEN [mem |-> a, endPos |-> endPos]
    ELSE IF Mem(a, i, ch, below) = ch
         THEN BackScan_NoStore(a, i - 1, i, ch, below)
         ELSE [mem |-> a, endPos |-> endPos]

\* Lines 242-248: for(uint32_t i = endPos - 1; i > 0; i--).
RECURSIVE BackScan(_, _, _, _, _)
BackScan(a, i, endPos, ch, below) ==
    IF i = 0 THEN [mem |-> a, endPos |-> endPos]
    ELSE IF Mem(a, i, ch, below) = ch
         THEN BackScan(Store(a, i, NUL), i - 1, i, ch, below)
         ELSE [mem |-> a, endPos |-> endPos]

\* LeadScan with an `if` in place of the loop: at most one leading ch.
LeadScan_Once(a, i, strSize, ch) ==
    IF i < strSize /\ a[i + 1] = ch THEN i + 1 ELSE i

\* Lines 251-255: the index after the leading run of ch within strSize.
RECURSIVE LeadScan(_, _, _, _)
LeadScan(a, i, strSize, ch) ==
    IF i < strSize /\ a[i + 1] = ch THEN LeadScan(a, i + 1, strSize, ch) ELSE i

\* strlen(&str[from]).
RECURSIVE StrLenFrom(_, _)
StrLenFrom(a, from) ==
    IF a[from + 1] = NUL THEN 0 ELSE 1 + StrLenFrom(a, from + 1)

\* What snprintf prints for the format f, which comes with no arguments:
\* "%%" prints "%", any other conversion fetches an argument that was never
\* passed and prints `junk` in place of the "%" and its conversion character.
RECURSIVE Expand(_, _)
Expand(f, junk) ==
    IF f = <<>> THEN <<>>
    ELSE IF f[1] # PERCENT THEN <<f[1]>> \o Expand(Tail(f), junk)
    ELSE IF Len(f) >= 2 /\ f[2] = PERCENT THEN <<PERCENT>> \o Expand(Tail(Tail(f)), junk)
    ELSE IF Len(f) >= 2 THEN junk \o Expand(Tail(Tail(f)), junk)
    ELSE junk

\* The first k characters of `out` and a null, stored front to back at str.
RECURSIVE PutFwd(_, _, _, _)
PutFwd(a, out, j, k) ==
    IF j = k THEN Store(a, k, NUL)
    ELSE PutFwd(Store(a, j, out[j + 1]), out, j + 1, k)

\* Line 257, snprintf(str, n, &str[from]): nothing is stored for n = 0, else
\* min(length printed, n - 1) bytes and a null, front to back.  n is a
\* uint32_t in the representation above: a negative n is larger than any
\* string.
SnprintfLen(a, n, from) ==
    LET l == StrLenFrom(a, from)
    IN  IF n < 0 \/ l <= n - 1 THEN l ELSE n - 1

RECURSIVE CopyFwd(_, _, _, _)
CopyFwd(a, j, k, from) ==
    IF j = k THEN Store(a, k, NUL)
    ELSE CopyFwd(Store(a, j, a[from + j + 1]), j + 1, k, from)

Snprintf(a, n, from, junk) ==
    LET f == SubSeq(a, from + 1, from + StrLenFrom(a, from))
    IN  IF n = 0 THEN a
        ELSE IF \E i \in 1..Len(f) : f[i] = PERCENT
             THEN LET out == Expand(f, junk)
                  IN  PutFwd(a, out, 0,
                             IF n < 0 \/ Len(out) <= n - 1 THEN Len(out) ELSE n - 1)
             ELSE CopyFwd(a, 0, SnprintfLen(a, n, from), from)

\* Lines 224-258.  The result: the buffer afterwards, whether an index left
\* [0, strSize), and the memory around the buffer afterwards.
trimstr(s, strSize, ch, below, above) ==
    LET endPos0 == FindEnd(Arena(s, above), strSize)
        back    == BackScan(Arena(s, above), endPos0 - 1, endPos0, ch, below)
        endPos  == back.endPos
        trimPos == LeadScan(back.mem, 0, strSize, ch)
        n       == endPos + 1 - trimPos
        after   == Snprintf(back.mem, n, trimPos, above)
    IN  [str     |-> SubSeq(after, 1, strSize),
         oob     |-> \/ endPos0 = 0
                     \/ trimPos + StrLenFrom(back.mem, trimPos) >= strSize,
         under   |-> IF endPos0 = 0 /\ ch # NUL THEN 0 ELSE below,
         post    |-> CStr(SubSeq(after, strSize + 1, Len(after))),
         endPos  |-> endPos,
         trimPos |-> trimPos]

----------------------------------------------------------------------------
\* The driver at rest: no call in progress, nothing received or sent yet.
DrvIdle ==
    /\ pc = "main"
    /\ api = "none"
    /\ ready = FALSE
    /\ nss = FALSE
    /\ reset = FALSE
    /\ buffer = <<>>
    /\ size = 0
    /\ cnt = 0
    /\ rxRet = "none"
    /\ bCmd = <<>>
    /\ sizeCmd = 1
    /\ sent = <<>>
    /\ units = 0
    /\ txCount = 0
    /\ rxUnits = 0
    /\ fault = "none"
    /\ status = "none"
    /\ trace = <<>>
    /\ calls = 0
    /\ everSent = FALSE
    /\ wild = FALSE

\* hwifi->ipAddress holding the C string t: what memset and snprintf leave.
Field(t) == [i \in 1..IpAddressSize |-> IF i <= Len(t) THEN t[i] ELSE NUL]

\* WIFI_CreateNewNetwork not called yet.
NetIdle ==
    /\ hwifi = [securityType |-> 0, passphrase |-> <<>>, ssid |-> <<>>,
                ipAddress |-> Field(<<>>)]
    /\ step = 0
    /\ issued = <<>>
    /\ resp = <<>>
    /\ ipOld = Field(<<>>)

\* No trimstr experiment in progress.
TrimIdle ==
    /\ str = <<>>
    /\ c = NUL
    /\ under = 0
    /\ post = <<>>
    /\ applied = 0
    /\ orig = <<>>
    /\ once = <<>>
    /\ oob = FALSE

----------------------------------------------------------------------------
\* trimstr on its own: every buffer up to MaxStr bytes, every character to
\* trim, every memory around the buffer; trimstr is applied to it twice.
TrimInit ==
    /\ DrvIdle
    /\ NetIdle
    /\ str \in SeqsUpTo(Byte, MaxStr)
    /\ c \in Byte
    /\ under \in 0..MaxUnder
    /\ post \in SeqsUpTo(Above, MaxPost)
    /\ applied = 0
    /\ orig = str
    /\ once = str
    /\ oob = FALSE

ApplyTrim ==
    /\ applied < 2
    /\ LET r == trimstr(str, Len(str), c, under, post)
       IN  /\ str' = r.str
           /\ under' = r.under
           /\ post' = r.post
           /\ oob' = r.oob
           /\ once' = IF applied = 0 THEN r.str ELSE once
    /\ applied' = applied + 1
    /\ UNCHANGED <<c, orig>>
    /\ UNCHANGED drvVars
    /\ UNCHANGED netVars

TrimNext == ApplyTrim

SpecTrim == TrimInit /\ [][TrimNext]_vars

----------------------------------------------------------------------------
\* The driver.  One thread of control; pc names the source line it is at.
\* The module drives CMDDATA_READY, the transport decides whether a transfer
\* succeeds and which bytes arrive, and the application brings the module up
\* with WIFI_Init before it sends commands.

Init == DrvIdle /\ TrimIdle /\ NetIdle

\* Error_Handler(): the fatal-escalation hook; it does not return.
Escalate(class) ==
    /\ pc' = "Error_Handler"
    /\ fault' = class

\* Lines 17-18: uint16_t cnt = 0; memset(buffer, '\0', size).
RxEnter(cap, ret) ==
    /\ buffer' = [i \in 1..cap |-> NUL]
    /\ size' = cap
    /\ cnt' = 0
    /\ rxUnits' = 0
    /\ rxRet' = ret
    /\ pc' = "rx_20"

\* StrEq comparing only the first strlen(lit) bytes, as strncmp would.
StrEq_Prefix(buf, lit) ==
    /\ Len(lit) < Len(buf)
    /\ SubSeq(buf, 1, Len(lit)) = lit

\* strcmp(buf, lit) = 0, for a literal shorter than the buffer.
StrEq(buf, lit) ==
    /\ Len(lit) < Len(buf)
    /\ SubSeq(buf, 1, Len(lit)) = lit
    /\ buf[Len(lit) + 1] = NUL

\* The module raises or drops CMDDATA_READY.
PeerSetsReady ==
    /\ ready' = ~ready
    /\ UNCHANGED <<pc, api, nss, reset, buffer, size, cnt, rxRet, bCmd, sizeCmd, sent,
                   units, txCount, rxUnits, fault, status, trace, calls, everSent, wild>>
    /\ UNCHANGED trimVars
    /\ UNCHANGED netVars

\* The application calls WIFI_Init; lines 70-71.
App_Init ==
    /\ pc = "main"
    /\ calls = 0
    /\ calls' = calls + 1
    /\ api' = "init"
    /\ status' = "none"
    /\ trace' = <<>>
    /\ txCount' = 0
    /\ reset' = TRUE
    /\ nss' = TRUE
    /\ pc' = "init_73"
    /\ UNCHANGED <<ready, buffer, size, cnt, rxRet, bCmd, sizeCmd, sent, units,
                   rxUnits, fault, everSent, wild>>
    /\ UNCHANGED trimVars
    /\ UNCHANGED netVars

\* Lines 73-75: the Ready-wait ends on a poll that sees Ready asserted, and
\* WIFI_SPI_Receive is entered on wifiRxBuffer.
Init_WaitReady ==
    /\ pc = "init_73"
    /\ ready
    /\ RxEnter(WIFI_RX_BUFFER_SIZE, "init_77")
    /\ trace' = Append(trace, "ReadyObserved")
    /\ UNCHANGED <<api, ready, nss, reset, bCmd, sizeCmd, sent, units, txCount,
                   fault, status, calls, everSent, wild>>
    /\ UNCHANGED trimVars
    /\ UNCHANGED netVars

\* The bytes a unit can carry in the call in progress.
RxBytes ==
    IF api # "create" THEN Byte ELSE IF step = 5 THEN NetByte ELSE AckByte

\* Rx_Unit with the space check off by one byte (cnt > size - 1).
Rx_Unit_LooseGuard ==
    /\ pc = "rx_20"
    /\ ready
    /\ ~(cnt > size - 1)
    /\ \E b1 \in RxBytes : \E b2 \in RxBytes :
          buffer' = [i \in 1..Len(buffer) |->
                        IF i = cnt + 1 THEN b1 ELSE IF i = cnt + 2 THEN b2 ELSE buffer[i]]
    /\ cnt' = (cnt + 2) % 65536
    /\ rxUnits' = rxUnits + 1
    /\ UNCHANGED <<pc, api, ready, nss, reset, size, rxRet, bCmd, sizeCmd, sent, units,
                   txCount, fault, status, trace, calls, everSent, wild>>
    /\ UNCHANGED trimVars
    /\ UNCHANGED netVars

\* Lines 20-27, Ready asserted and space left: one 16-bit unit is stored at
\* buffer + cnt.
Rx_Unit ==
    /\ pc = "rx_20"
    /\ ready
    /\ ~(cnt > size - 2)
    /\ \E b1 \in RxBytes : \E b2 \in RxBytes :
          buffer' = [buffer EXCEPT ![cnt + 1] = b1, ![cnt + 2] = b2]
    /\ cnt' = (cnt + 2) % 65536
    /\ rxUnits' = rxUnits + 1
    /\ UNCHANGED <<pc, api, ready, nss, reset, size, rxRet, bCmd, sizeCmd, sent, units,
                   txCount, fault, status, trace, calls, everSent, wild>>
    /\ UNCHANGED trimVars
    /\ UNCHANGED netVars

\* Rx_Overflow that starts over at the front of the buffer.
Rx_Overflow_Wraps ==
    /\ pc = "rx_20"
    /\ ready
    /\ cnt > size - 2
    /\ cnt' = 0
    /\ rxUnits' = rxUnits + 1
    /\ UNCHANGED <<pc, api, ready, nss, reset, buffer, size, rxRet, bCmd, sizeCmd, sent,
                   units, txCount, fault, status, trace, calls, everSent, wild>>
    /\ UNCHANGED trimVars
    /\ UNCHANGED netVars

\* Lines 23-26, Ready asserted and cnt > size - 2.
Rx_Overflow ==
    /\ pc = "rx_20"
    /\ ready
    /\ cnt > size - 2
    /\ Escalate("overflow")
    /\ UNCHANGED <<api, ready, nss, reset, buffer, size, cnt, rxRet, bCmd, sizeCmd, sent,
                   units, txCount, rxUnits, status, trace, calls, everSent, wild>>
    /\ UNCHANGED trimVars
    /\ UNCHANGED netVars

\* Rx_TransportFault reported as an overflow.
Rx_TransportFault_AsOverflow ==
    /\ pc = "rx_20"
    /\ ready
    /\ ~(cnt > size - 2)
    /\ Escalate("overflow")
    /\ UNCHANGED <<api, ready, nss, reset, buffer, size, cnt, rxRet, bCmd, sizeCmd, sent,
                   units, txCount, rxUnits, status, trace, calls, everSent, wild>>
    /\ UNCHANGED trimVars
    /\ UNCHANGED netVars

\* Lines 23-26, HAL_SPI_Receive fails.
Rx_TransportFault ==
    /\ pc = "rx_20"
    /\ ready
    /\ ~(cnt > size - 2)
    /\ Escalate("transport")
    /\ UNCHANGED <<api, ready, nss, reset, buffer, size, cnt, rxRet, bCmd, sizeCmd, sent,
                   units, txCount, rxUnits, status, trace, calls, everSent, wild>>
    /\ UNCHANGED trimVars
    /\ UNCHANGED netVars

\* Lines 20 and 31-33, Ready de-asserted: the buffer is trimmed of the RX
\* padding and WIFI_SPI_Receive returns WIFI_OK.
Rx_Done ==
    /\ pc = "rx_20"
    /\ ~ready
    /\ trace' = Append(trace, "Receive")
    /\ pc' = rxRet
    /\ \E below \in 0..MaxUnder : \E above \in SeqsUpTo(Above, MaxPost) :
          LET r == trimstr(buffer, size, WIFI_RX_PADDING, below, above)
          IN  /\ buffer' = r.str
              /\ wild' = (wild \/ r.oob)
    /\ UNCHANGED <<api, ready, nss, reset, size, cnt, rxRet, bCmd, sizeCmd, sent, units,
                   txCount, rxUnits, fault, status, calls, everSent>>
    /\ UNCHANGED trimVars
    /\ resp' = IF api = "create" /\ step = 5 THEN buffer ELSE resp
    /\ UNCHANGED <<hwifi, step, issued, ipOld>>

\* Lines 77-81, the banner matches.
Init_BannerOk ==
    /\ pc = "init_77"
    /\ StrEq(buffer, WIFI_MSG_POWERUP)
    /\ nss' = FALSE
    /\ status' = "WIFI_OK"
    /\ pc' = "main"
    /\ UNCHANGED <<api, ready, reset, buffer, size, cnt, rxRet, bCmd, sizeCmd, sent, units,
                   txCount, rxUnits, fault, trace, calls, everSent, wild>>
    /\ UNCHANGED trimVars
    /\ UNCHANGED netVars

\* Line 77, the banner does not match.
Init_BannerMismatch ==
    /\ pc = "init_77"
    /\ ~StrEq(buffer, WIFI_MSG_POWERUP)
    /\ Escalate("protocol")
    /\ UNCHANGED <<api, ready, nss, reset, buffer, size, cnt, rxRet, bCmd, sizeCmd, sent,
                   units, txCount, rxUnits, status, trace, calls, everSent, wild>>
    /\ UNCHANGED trimVars
    /\ UNCHANGED netVars

\* The application calls WIFI_SendATCommand with a command text, its size
\* (terminator included) and a response buffer of some capacity.
App_SendATCommand ==
    /\ pc = "main"
    /\ calls > 0
    /\ calls < MaxCalls
    /\ calls' = calls + 1
    /\ api' = "send"
    /\ status' = "none"
    /\ trace' = <<>>
    /\ txCount' = 0
    /\ \E cmd \in SeqsUpTo({65}, MaxCmd) :
          /\ bCmd' = cmd
          /\ sizeCmd' = Len(cmd) + 1
    /\ \E cap \in 0..MaxCap :
          /\ size' = cap
          /\ buffer' = [i \in 1..cap |-> NUL]
    /\ pc' = "send_98"
    /\ UNCHANGED <<ready, nss, reset, cnt, rxRet, sent, units, rxUnits, fault,
                   everSent, wild>>
    /\ UNCHANGED trimVars
    /\ UNCHANGED netVars

\* Send_WaitReadyForCmd that gives up waiting.
Send_WaitReadyForCmd_NoWait ==
    /\ pc = "send_98"
    /\ nss' = TRUE
    /\ trace' = trace \o <<"ReadyObserved", "Select">>
    /\ pc' = "send_102"
    /\ UNCHANGED <<api, ready, reset, buffer, size, cnt, rxRet, bCmd, sizeCmd, sent, units,
                   txCount, rxUnits, fault, status, calls, everSent, wild>>
    /\ UNCHANGED trimVars
    /\ UNCHANGED netVars

\* Lines 98-100: the Ready-wait ends on a poll that sees Ready asserted;
\* select is asserted.
Send_WaitReadyForCmd ==
    /\ pc = "send_98"
    /\ ready
    /\ nss' = TRUE
    /\ trace' = trace \o <<"ReadyObserved", "Select">>
    /\ pc' = "send_102"
    /\ UNCHANGED <<api, ready, reset, buffer, size, cnt, rxRet, bCmd, sizeCmd, sent, units,
                   txCount, rxUnits, fault, status, calls, everSent, wild>>
    /\ UNCHANGED trimVars
    /\ UNCHANGED netVars

\* Lines 48-53: the bytes WIFI_SPI_Transmit hands to HAL_SPI_Transmit for a
\* command text of n - 1 characters declared with size n.  bTx holds the text
\* and, for an even n, what strcat appends: the string found at the address
\* (char) WIFI_TX_PADDING, of which `first` is the first byte (a null when
\* that string is empty).  size/2 units, 2 bytes each, are sent from bTx.
TxFrame(cmd, n, first) ==
    SubSeq(cmd \o <<first>>, 1, 2 * (n \div 2))

\* Send_Transmit without the WIFI_DISABLE_NSS of line 104.
Send_Transmit_NoDeselect ==
    /\ pc = "send_102"
    /\ \E first \in Byte \cup {WIFI_TX_PADDING} :
          sent' = SubSeq(bCmd \o <<first>>, 1, 2 * (sizeCmd \div 2))
    /\ units' = sizeCmd \div 2
    /\ txCount' = txCount + 1
    /\ everSent' = TRUE
    /\ wild' = (wild \/ sizeCmd % 2 = 0)
    /\ trace' = Append(trace, "Transmit")
    /\ pc' = "send_106"
    /\ UNCHANGED <<api, ready, nss, reset, buffer, size, cnt, rxRet, bCmd, sizeCmd,
                   rxUnits, fault, status, calls>>
    /\ UNCHANGED trimVars
    /\ UNCHANGED netVars

\* Lines 102-104: the command is transmitted and select de-asserted.
Send_Transmit ==
    /\ pc = "send_102"
    /\ \E first \in Byte \cup {WIFI_TX_PADDING} :
          sent' = TxFrame(bCmd, sizeCmd, first)
    /\ units' = sizeCmd \div 2
    /\ txCount' = txCount + 1
    /\ everSent' = TRUE
    /\ wild' = (wild \/ sizeCmd % 2 = 0)
    /\ nss' = FALSE
    /\ trace' = trace \o <<"Transmit", "Deselect">>
    /\ pc' = "send_106"
    /\ UNCHANGED <<api, ready, reset, buffer, size, cnt, rxRet, bCmd, sizeCmd,
                   rxUnits, fault, status, calls>>
    /\ UNCHANGED trimVars
    /\ UNCHANGED netVars

\* Send_TransmitFault that notes the failure and transmits again.
Send_TransmitFault_Retry ==
    /\ pc = "send_102"
    /\ txCount < 3
    /\ txCount' = txCount + 1
    /\ everSent' = TRUE
    /\ wild' = (wild \/ sizeCmd % 2 = 0)
    /\ fault' = "transport"
    /\ UNCHANGED <<pc, api, ready, nss, reset, buffer, size, cnt, rxRet, bCmd, sizeCmd,
                   sent, units, rxUnits, status, trace, calls>>
    /\ UNCHANGED trimVars
    /\ UNCHANGED netVars

\* Lines 53-56: HAL_SPI_Transmit fails.
Send_TransmitFault ==
    /\ pc = "send_102"
    /\ txCount' = txCount + 1
    /\ everSent' = TRUE
    /\ wild' = (wild \/ sizeCmd % 2 = 0)
    /\ Escalate("transport")
    /\ UNCHANGED <<api, ready, nss, reset, buffer, size, cnt, rxRet, bCmd, sizeCmd, sent,
                   units, rxUnits, status, trace, calls>>
    /\ UNCHANGED trimVars
    /\ UNCHANGED netVars

\* Send_WaitReadyForResp without the WIFI_ENABLE_NSS of line 108.
Send_WaitReadyForResp_NoSelect ==
    /\ pc = "send_106"
    /\ ready
    /\ trace' = trace \o <<"ReadyObserved", "Select">>
    /\ RxEnter(size, "send_112")
    /\ UNCHANGED <<api, ready, nss, reset, bCmd, sizeCmd, sent, units, txCount,
                   fault, status, calls, everSent, wild>>
    /\ UNCHANGED trimVars
    /\ UNCHANGED netVars

\* Lines 106-110: the second Ready-wait ends on a poll that sees Ready
\* asserted; select is asserted and WIFI_SPI_Receive entered on bRx.
Send_WaitReadyForResp ==
    /\ pc = "send_106"
    /\ ready
    /\ nss' = TRUE
    /\ trace' = trace \o <<"ReadyObserved", "Select">>
    /\ RxEnter(size, "send_112")
    /\ UNCHANGED <<api, ready, reset, bCmd, sizeCmd, sent, units, txCount,
                   fault, status, calls, everSent, wild>>
    /\ UNCHANGED trimVars
    /\ UNCHANGED netVars

\* Lines 112-116, Ready de-asserted at the check after the receive;
\* WIFI_SendATCommand returns to the application or to WIFI_CreateNewNetwork.
Send_OverflowCheckOk ==
    /\ pc = "send_112"
    /\ ~ready
    /\ nss' = FALSE
    /\ trace' = trace \o <<"ReadyChecked", "Deselect", "Return">>
    /\ status' = "WIFI_OK"
    /\ pc' = IF api = "create" THEN "create_ret" ELSE "main"
    /\ UNCHANGED <<api, ready, reset, buffer, size, cnt, rxRet, bCmd, sizeCmd, sent, units,
                   txCount, rxUnits, fault, calls, everSent, wild>>
    /\ UNCHANGED trimVars
    /\ UNCHANGED netVars

\* Send_OverflowFault without the check of line 112.
Send_OverflowFault_NoCheck ==
    /\ pc = "send_112"
    /\ ready
    /\ nss' = FALSE
    /\ trace' = trace \o <<"ReadyChecked", "Deselect", "Return">>
    /\ status' = "WIFI_OK"
    /\ pc' = IF api = "create" THEN "create_ret" ELSE "main"
    /\ UNCHANGED <<api, ready, reset, buffer, size, cnt, rxRet, bCmd, sizeCmd, sent, units,
                   txCount, rxUnits, fault, calls, everSent, wild>>
    /\ UNCHANGED trimVars
    /\ UNCHANGED netVars

\* Line 112, Ready still asserted at the check after the receive.
Send_OverflowFault ==
    /\ pc = "send_112"
    /\ ready
    /\ Escalate("overflow")
    /\ UNCHANGED <<api, ready, nss, reset, buffer, size, cnt, rxRet, bCmd, sizeCmd, sent,
                   units, txCount, rxUnits, status, trace, calls, everSent, wild>>
    /\ UNCHANGED trimVars
    /\ UNCHANGED netVars

Next ==
    \/ PeerSetsReady
    \/ App_Init
    \/ Init_WaitReady
    \/ Rx_Unit
    \/ Rx_Overflow
    \/ Rx_TransportFault
    \/ Rx_Done
    \/ Init_BannerOk
    \/ Init_BannerMismatch
    \/ App_SendATCommand
    \/ Send_WaitReadyForCmd
    \/ Send_Transmit
    \/ Send_TransmitFault
    \/ Send_WaitReadyForResp
    \/ Send_OverflowCheckOk
    \/ Send_OverflowFault

Spec == Init /\ [][Next]_vars

----------------------------------------------------------------------------
\* WIFI_CreateNewNetwork, lines 127-164.

\* sprintf("%d") of a non-negative int.
RECURSIVE Digits(_)
Digits(n) == IF n < 10 THEN <<48 + n>> ELSE Digits(n \div 10) \o <<48 + (n % 10)>>

\* Lines 136, 140, 144, 148, 152: the text sprintf leaves in wifiTxBuffer for
\* exchange k: "A1=%d\r", "A2=%s\r", "AS=0,%s\r", "AD\r", "A?\r".
NetCmd(k, h) ==
    CASE k = 1 -> <<65, 49, 61>> \o Digits(h.securityType) \o <<13>>
      [] k = 2 -> <<65, 50, 61>> \o h.passphrase \o <<13>>
      [] k = 3 -> <<65, 83, 61, 48, 44>> \o h.ssid \o <<13>>
      [] k = 4 -> <<65, 68, 13>>
      [] k = 5 -> <<65, 63, 13>>

\* Handles the application can pass.
Handles ==
    {[securityType |-> 0, passphrase |-> <<>>, ssid |-> <<65>>,
      ipAddress |-> Field(<<>>)],
     [securityType |-> 3, passphrase |-> <<65>>, ssid |-> <<65, 65>>,
      ipAddress |-> Field(<<65>>)]}

\* The state in which WIFI_Init has returned WIFI_OK: the banner is in
\* wifiRxBuffer, select is released, and the application holds a handle.
NetInit ==
    /\ pc = "main"
    /\ api = "init"
    /\ ready \in BOOLEAN
    /\ nss = FALSE
    /\ reset = TRUE
    /\ buffer = [i \in 1..WIFI_RX_BUFFER_SIZE |->
                    IF i <= Len(WIFI_MSG_POWERUP) THEN WIFI_MSG_POWERUP[i] ELSE NUL]
    /\ size = WIFI_RX_BUFFER_SIZE
    /\ cnt = 2
    /\ rxRet = "init_77"
    /\ bCmd = <<>>
    /\ sizeCmd = 1
    /\ sent = <<>>
    /\ units = 0
    /\ txCount = 0
    /\ rxUnits = 1
    /\ fault = "none"
    /\ status = "WIFI_OK"
    /\ trace = <<"ReadyObserved", "Receive">>
    /\ calls = 1
    /\ everSent = FALSE
    /\ wild = FALSE
    /\ TrimIdle
    /\ hwifi \in Handles
    /\ step = 0
    /\ issued = <<>>
    /\ resp = <<>>
    /\ ipOld = hwifi.ipAddress

\* Lines 136-153: sprintf into wifiTxBuffer and the call of
\* WIFI_SendATCommand(hwifi, wifiTxBuffer, msgLength + 1, wifiRxBuffer,
\* WIFI_RX_BUFFER_SIZE) for exchange k.
NetExchange(k) ==
    /\ step' = k
    /\ bCmd' = NetCmd(k, hwifi)
    /\ sizeCmd' = Len(NetCmd(k, hwifi)) + 1
    /\ issued' = Append(issued, NetCmd(k, hwifi))
    /\ resp' = <<>>
    /\ size' = WIFI_RX_BUFFER_SIZE
    /\ status' = "none"
    /\ trace' = <<>>
    /\ txCount' = 0
    /\ pc' = "send_98"

\* The application calls WIFI_CreateNewNetwork once WIFI_Init has returned
\* WIFI_OK; lines 127-137.
App_CreateNewNetwork ==
    /\ pc = "main"
    /\ api = "init"
    /\ status = "WIFI_OK"
    /\ calls' = calls + 1
    /\ api' = "create"
    /\ ipOld' = hwifi.ipAddress
    /\ step' = 1
    /\ bCmd' = NetCmd(1, hwifi)
    /\ sizeCmd' = Len(NetCmd(1, hwifi)) + 1
    /\ issued' = <<NetCmd(1, hwifi)>>
    /\ resp' = <<>>
    /\ size' = WIFI_RX_BUFFER_SIZE
    /\ status' = "none"
    /\ trace' = <<>>
    /\ txCount' = 0
    /\ pc' = "send_98"
    /\ UNCHANGED <<ready, nss, reset, buffer, cnt, rxRet, sent, units, rxUnits, fault,
                   everSent, wild>>
    /\ UNCHANGED hwifi
    /\ UNCHANGED trimVars

\* Net_NextExchange that leaves out the exchange that is due.
Net_NextExchange_Skip ==
    /\ pc = "create_ret"
    /\ step < 4
    /\ NetExchange(step + 2)
    /\ UNCHANGED <<api, ready, nss, reset, buffer, cnt, rxRet, sent, units, rxUnits,
                   fault, calls, everSent, wild>>
    /\ UNCHANGED <<hwifi, ipOld>>
    /\ UNCHANGED trimVars

\* Lines 140-153: the previous WIFI_SendATCommand has returned (its result
\* and the response are not looked at) and the next exchange is started.
Net_NextExchange ==
    /\ pc = "create_ret"
    /\ step < 5
    /\ NetExchange(step + 1)
    /\ UNCHANGED <<api, ready, nss, reset, buffer, cnt, rxRet, sent, units, rxUnits,
                   fault, calls, everSent, wild>>
    /\ UNCHANGED <<hwifi, ipOld>>
    /\ UNCHANGED trimVars

\* The C string strstr reads at wifiRxBuffer: it runs on into the bytes
\* above the buffer when the buffer holds no null.
ParseText(above) == CStr(Arena(buffer, above))

\* strstr(t, ","): the index of the first "," of t (1-based), 0 for NULL.
FirstComma(t) ==
    LET cs == {i \in 1..Len(t) : t[i] = COMMA}
    IN  IF cs = {} THEN 0 ELSE Min(cs)

\* Line 156: the C string at ipStart = strstr(wifiRxBuffer, ",") + 1.
AfterComma(t) == SubSeq(t, FirstComma(t) + 1, Len(t))

\* snprintf(dst, n, f) for n >= 1: what is stored before the null.
SnprintfOut(f, n, junk) ==
    LET out == Expand(f, junk)
    IN  SubSeq(out, 1, IF Len(out) <= n - 1 THEN Len(out) ELSE n - 1)

\* Lines 156-163, the text holds a "," and another one after it: ipEnd -
\* ipStart + 1 is the length of the text between them plus one, and snprintf
\* prints the text at ipStart, taken as its format, into the zeroed field.
Net_ParseTwoCommas ==
    /\ pc = "create_ret"
    /\ step = 5
    /\ \E above \in SeqsUpTo(Above, MaxPost) : \E junk \in JunkText :
          LET s == AfterComma(ParseText(above))
          IN  /\ FirstComma(ParseText(above)) # 0
              /\ FirstComma(s) # 0
              /\ hwifi' = [hwifi EXCEPT
                              !.ipAddress = Field(SnprintfOut(s, FirstComma(s), junk))]
              /\ wild' = (wild \/ ~HasNul(buffer) \/ \E i \in 1..Len(s) : s[i] = PERCENT)
    /\ status' = "WIFI_OK"
    /\ pc' = "main"
    /\ UNCHANGED <<api, ready, nss, reset, buffer, size, cnt, rxRet, bCmd, sizeCmd, sent,
                   units, txCount, rxUnits, fault, trace, calls, everSent>>
    /\ UNCHANGED <<step, issued, resp, ipOld>>
    /\ UNCHANGED trimVars

\* Lines 156-163, the text holds a single ",": ipEnd is NULL and the size
\* (size_t)(ipEnd - ipStart + 1) is not a length.  snprintf either refuses
\* a size above INT_MAX and stores nothing, or prints all of the text at
\* ipStart; the field was zeroed before.  No fault is raised.
Net_ParseOneComma ==
    /\ pc = "create_ret"
    /\ step = 5
    /\ \E above \in SeqsUpTo(Above, MaxPost) : \E junk \in JunkText :
          LET s == AfterComma(ParseText(above))
          IN  /\ FirstComma(ParseText(above)) # 0
              /\ FirstComma(s) = 0
              /\ \E stored \in {<<>>, Expand(s, junk)} :
                    hwifi' = [hwifi EXCEPT !.ipAddress = Field(stored)]
    /\ wild' = TRUE
    /\ status' = "WIFI_OK"
    /\ pc' = "main"
    /\ UNCHANGED <<api, ready, nss, reset, buffer, size, cnt, rxRet, bCmd, sizeCmd, sent,
                   units, txCount, rxUnits, fault, trace, calls, everSent>>
    /\ UNCHANGED <<step, issued, resp, ipOld>>
    /\ UNCHANGED trimVars

\* Lines 156-163, the text holds no ",": strstr returns NULL, ipStart is the
\* address 1 and the field receives whatever text is found from there on.
\* No fault is raised.
Net_ParseNoComma ==
    /\ pc = "create_ret"
    /\ step = 5
    /\ \E above \in SeqsUpTo(Above, MaxPost) : FirstComma(ParseText(above)) = 0
    /\ \E junk \in JunkText :
          hwifi' = [hwifi EXCEPT !.ipAddress = Field(junk)]
    /\ wild' = TRUE
    /\ status' = "WIFI_OK"
    /\ pc' = "main"
    /\ UNCHANGED <<api, ready, nss, reset, buffer, size, cnt, rxRet, bCmd, sizeCmd, sent,
                   units, txCount, rxUnits, fault, trace, calls, everSent>>
    /\ UNCHANGED <<step, issued, resp, ipOld>>
    /\ UNCHANGED trimVars

NetNext ==
    \/ PeerSetsReady
    \/ App_CreateNewNetwork
    \/ Net_NextExchange
    \/ Net_ParseTwoCommas
    \/ Net_ParseOneComma
    \/ Net_ParseNoComma
    \/ Send_WaitReadyForCmd
    \/ Send_Transmit
    \/ Send_TransmitFault
    \/ Send_WaitReadyForResp
    \/ Rx_Unit
    \/ Rx_Overflow
    \/ Rx_TransportFault
    \/ Rx_Done
    \/ Send_OverflowCheckOk
    \/ Send_OverflowFault

SpecNet == NetInit /\ [][NetNext]_vars

----------------------------------------------------------------------------
\* WIFI_SPI_Receive on its own.

\* One pass of the read loop of WIFI_SPI_Receive (lines 20-27, 31-33).
RxStep == Rx_Unit \/ Rx_Overflow \/ Rx_TransportFault \/ Rx_Done

\* What a pass of the loop does to the program counter and the cursor: a
\* unit moves the cursor, a fault escalates, Ready de-asserted returns.  A
\* step of RxNext changes pc or cnt exactly when it is an RxStep step.
RxPass ==
    /\ pc = "rx_20"
    /\ \/ ready /\ ~(cnt > size - 2) /\ cnt' = (cnt + 2) % 65536 /\ pc' = pc
       \/ ready /\ cnt' = cnt /\ pc' = "Error_Handler"
       \/ ~ready /\ cnt' = cnt /\ pc' = rxRet

\* WIFI_SPI_Receive on its own: the state at line 20 after lines 17-18, for
\* any buffer capacity and either level of Ready, select asserted by the
\* caller.
RxInit ==
    /\ pc = "rx_20"
    /\ api = "receive"
    /\ ready \in BOOLEAN
    /\ nss = TRUE
    /\ reset = TRUE
    /\ size \in 0..MaxCap
    /\ buffer = [i \in 1..size |-> NUL]
    /\ cnt = 0
    /\ rxRet = "main"
    /\ bCmd = <<>>
    /\ sizeCmd = 1
    /\ sent = <<>>
    /\ units = 0
    /\ txCount = 0
    /\ rxUnits = 0
    /\ fault = "none"
    /\ status = "none"
    /\ trace = <<>>
    /\ calls = 1
    /\ everSent = FALSE
    /\ wild = FALSE
    /\ TrimIdle
    /\ NetIdle

RxNext == PeerSetsReady \/ RxStep

\* The read loop two units before the top of the cursor's 16-bit range: the
\* state at line 20 after cnt / 2 units were stored in a buffer of 65534 or
\* 65535 bytes.
RxTopInit ==
    /\ pc = "rx_20"
    /\ api = "receive"
    /\ ready \in BOOLEAN
    /\ nss = TRUE
    /\ reset = TRUE
    /\ size \in {UINT16_MAX - 1, UINT16_MAX}
    /\ cnt = UINT16_MAX - 5
    /\ buffer = [i \in 1..size |-> IF i <= cnt THEN 65 ELSE NUL]
    /\ rxRet = "main"
    /\ bCmd = <<>>
    /\ sizeCmd = 1
    /\ sent = <<>>
    /\ units = 0
    /\ txCount = 0
    /\ rxUnits = cnt \div 2
    /\ fault = "none"
    /\ status = "none"
    /\ trace = <<>>
    /\ calls = 1
    /\ everSent = FALSE
    /\ wild = FALSE
    /\ TrimIdle
    /\ NetIdle

\* The read loop of lines 20-27 up to, not including, its exit to trimstr.
RxLoopNext == PeerSetsReady \/ Rx_Unit \/ Rx_Overflow \/ Rx_TransportFault

SpecRxLoop == (RxInit \/ RxTopInit) /\ [][RxLoopNext]_vars

\* The processor keeps executing the loop: a pass that stays possible is
\* eventually made.
SpecRx == RxInit /\ [][RxNext]_vars /\ WF_<<pc, cnt>>(RxPass)

----------------------------------------------------------------------------
\* Claims about trimstr (checked under SpecTrim).

\* C6 as stated: trimstr is idempotent: for every character c and every
\* buffer holding a null-terminated string, the string held after applying
\* trimstr twice with c is the string held after applying it once.
C6_TrimIdempotent ==
    applied = 2 /\ HasNul(orig) => CStr(str) = CStr(once)

\* The string of b is n >= 1 copies of ch.
AllSentinel(b, ch) ==
    /\ HasNul(b)
    /\ CStr(b) # <<>>
    /\ \A i \in 1..Len(CStr(b)) : CStr(b)[i] = ch

\* C7: applied to a buffer whose string is n >= 1 copies of the character to
\* trim, trimstr leaves the empty string (first byte null) and no index it
\* uses leaves the buffer.
C7_AllSentinelEmpty ==
    applied = 1 /\ AllSentinel(orig, c) => str[1] = NUL /\ ~oob

\* trimstr has run on a string of at least two copies of c.
C7_Witness ==
    applied = 1 /\ AllSentinel(orig, c) /\ Len(CStr(orig)) >= 2

\* b is k >= 1 nulls, then a non-empty text without nulls, then nulls up to
\* the capacity (at least one).
NulTextNul(b) ==
    \E k \in 1..Len(b) : \E m \in 1..Len(b) :
        /\ k + m < Len(b)
        /\ \A i \in 1..Len(b) : (b[i] = NUL) <=> (i <= k \/ i > k + m)

TextOf(b) == SelectSeq(b, LAMBDA x : x # NUL)

\* C8: with the null byte as the character to trim, a buffer holding leading
\* nulls, a text and trailing nulls afterwards holds exactly that text.
C8_NulSentinelStripsBoth ==
    applied = 1 /\ c = NUL /\ NulTextNul(orig) => CStr(str) = TextOf(orig)

\* s without its leading run of ch.
RECURSIVE StripLead(_, _)
StripLead(s, ch) ==
    IF s # <<>> /\ s[1] = ch THEN StripLead(Tail(s), ch) ELSE s

\* s without its trailing run of ch.
RECURSIVE StripTrail(_, _)
StripTrail(s, ch) ==
    IF s # <<>> /\ s[Len(s)] = ch THEN StripTrail(SubSeq(s, 1, Len(s) - 1), ch) ELSE s

\* C14 as stated: for every character c and every buffer holding a null,
\* trimstr leaves the buffer holding the original string without its maximal
\* leading and trailing runs of c, starting at index 0 and null-terminated.
C14_TrimStripsBothRuns ==
    applied = 1 /\ HasNul(orig)
        => HasNul(str) /\ CStr(str) = StripTrail(StripLead(CStr(orig), c), c)

\* C15 as stated: for every buffer, capacity and character, no index trimstr
\* reads or writes lies outside [0, capacity).
C15_TrimStaysInBounds ==
    applied >= 1 /\ Len(orig) >= 1 => ~oob

----------------------------------------------------------------------------
\* Claims about the driver (checked under Spec).

ExchangeOrder ==
    <<"ReadyObserved", "Select", "Transmit", "Deselect",
      "ReadyObserved", "Select", "Receive", "ReadyChecked", "Deselect", "Return">>

\* C1: a WIFI_SendATCommand call that returned WIFI_OK performed exactly:
\* Ready observed asserted, select, transmit, deselect, Ready observed
\* asserted, select, receive, Ready checked, deselect, return, in this order,
\* with one transmit.
C1_ExchangeSequence ==
    api = "send" /\ status = "WIFI_OK" => trace = ExchangeOrder /\ txCount = 1 /\ ~nss

\* An exchange that received at least one unit has returned WIFI_OK.
C1_Witness ==
    api = "send" /\ status = "WIFI_OK" /\ pc = "main" /\ rxUnits >= 1

\* C2: when the check made right after the receive of an exchange finds Ready
\* asserted, an overflow fault is escalated, and from then on the exchange
\* never returns WIFI_OK.
C2_OverflowCheckEscalates ==
    /\ [][pc = "send_112" /\ ready /\ pc' # pc
            => pc' = "Error_Handler" /\ fault' = "overflow" /\ status' # "WIFI_OK"]_vars
    /\ [][pc = "Error_Handler" => pc' = "Error_Handler" /\ status' = status]_vars

\* The check after a completed receive has escalated an overflow fault.
C2_Witness ==
    /\ pc = "Error_Handler"
    /\ fault = "overflow"
    /\ api = "send"
    /\ Len(trace) = 7
    /\ trace[7] = "Receive"

\* C3 as stated: when Ready is still asserted once WIFI_SPI_Receive has
\* filled capacity - 2 bytes, it transfers nothing more and escalates an
\* overflow fault.
C3_OverflowAtCapacityMinus2 ==
    [][pc = "rx_20" /\ ready /\ rxUnits >= 1 /\ cnt = size - 2 /\ (pc' # pc \/ cnt' # cnt)
          => fault' = "overflow" /\ rxUnits' = rxUnits /\ buffer' = buffer]_vars

\* WIFI_SPI_Receive has just returned WIFI_OK.
RxReturned == pc \in {"init_77", "send_112"}

\* The string of b neither begins nor ends with ch.
CleanString(b, ch) ==
    LET s == CStr(b)
    IN  s # <<>> => s[1] # ch /\ s[Len(s)] # ch

\* C4 as stated: whenever WIFI_SPI_Receive returns WIFI_OK on a buffer of
\* capacity >= 2, the buffer holds a null byte and the text before the first
\* null neither begins nor ends with the RX padding.
C4_ReceiveYieldsCleanString ==
    RxReturned /\ size >= 2 => HasNul(buffer) /\ CleanString(buffer, WIFI_RX_PADDING)

\* C5: a fault is absorbing: once one is escalated there is no further
\* transfer, select change or buffer write, and a call hands its command to
\* the transport at most once.
C5_FaultAbsorbing ==
    /\ [](txCount <= 1)
    /\ [][fault # "none"
            => UNCHANGED <<pc, fault, nss, reset, buffer, cnt, rxUnits, sent, units,
                           txCount, everSent, status, trace>>]_vars

\* A transmit failed while select was asserted and the fault was escalated.
C5_Witness ==
    pc = "Error_Handler" /\ fault = "transport" /\ txCount = 1 /\ nss

\* C9 as stated: for a command of declared size n with n - 1 characters,
\* WIFI_SPI_Transmit sends n/2 units holding the characters followed by
\* exactly one TX padding byte for an even n and by none for an odd n; the
\* number of bytes sent is even.
C9_TransmitFraming ==
    pc = "send_106" /\ txCount = 1
        => /\ units = sizeCmd \div 2
           /\ sent = (IF sizeCmd % 2 = 0 THEN bCmd \o <<WIFI_TX_PADDING>> ELSE bCmd)
           /\ Len(sent) % 2 = 0

\* C10: when the trimmed text received after reset differs from the power-up
\* banner, WIFI_Init escalates a protocol fault, does not return WIFI_OK, and
\* no command has been or is ever handed to the transport.
C10_BannerMismatchFatal ==
    /\ [][pc = "init_77" /\ CStr(buffer) # WIFI_MSG_POWERUP /\ pc' # pc
            => /\ pc' = "Error_Handler"
               /\ fault' = "protocol"
               /\ status' # "WIFI_OK"
               /\ ~everSent']_vars
    /\ [][fault = "protocol" => UNCHANGED <<pc, status, everSent, txCount, sent>>]_vars

\* WIFI_Init received a text that is not the banner and escalated.
C10_Witness ==
    /\ pc = "Error_Handler"
    /\ fault = "protocol"
    /\ rxUnits >= 1
    /\ CStr(buffer) # <<>>
    /\ ~everSent

\* The Ready-waits of lines 73, 98 and 106.
ReadyWaits == {"init_73", "send_98", "send_106"}

\* C13: while Ready is not asserted a Ready-wait is not left: select does not
\* change, nothing is transmitted, nothing returns and no fault is escalated;
\* so with Ready never asserted WIFI_SendATCommand stays in its first
\* Ready-wait, and a Ready-wait is left only on a poll that sees Ready.
C13_ReadyWaitBlocks ==
    [][~ready /\ pc \in ReadyWaits
          => (/\ pc' = pc
              /\ nss' = nss
              /\ txCount' = txCount
              /\ sent' = sent
              /\ fault' = fault
              /\ status' = status)]_vars

\* WIFI_SendATCommand is in its first Ready-wait and Ready is not asserted.
C13_Witness ==
    pc = "send_98" /\ ~ready /\ ~nss /\ txCount = 0 /\ status = "none"

\* C16: every transfer (the transmit, each received unit) happens while
\* select is asserted, select is de-asserted throughout the Ready-wait between
\* the write and the read phase, and whenever a call has returned WIFI_OK.
C16_SelectBrackets ==
    /\ [](pc = "send_106" => ~nss)
    /\ [](pc = "main" /\ status = "WIFI_OK" => ~nss)
    /\ [][rxUnits' = rxUnits + 1 => nss /\ nss']_vars
    /\ [][txCount' = txCount + 1 => nss]_vars

\* An exchange is receiving its response under select.
C16_Witness ==
    api = "send" /\ pc = "rx_20" /\ rxUnits >= 1 /\ nss /\ txCount = 1

\* A step that escalates an overflow fault.
OverflowRaised == fault # "overflow" /\ fault' = "overflow"

\* C17 as stated: every overflow fault raised during a WIFI_SendATCommand
\* call is raised by the check made right after the receive.
C17_SoleOverflowSignal ==
    [][OverflowRaised /\ api = "send" => pc = "send_112"]_vars

\* C17 amended: every overflow fault raised during a WIFI_SendATCommand call
\* is raised with Ready asserted, either by the check made right after the
\* receive or by the space check inside WIFI_SPI_Receive (cnt > size - 2).
C17_OverflowSignals ==
    [][OverflowRaised /\ api = "send"
          => (\/ pc = "send_112" /\ ready
              \/ pc = "rx_20" /\ ready /\ cnt > size - 2)]_vars

\* An overflow fault was raised inside WIFI_SPI_Receive, before it returned.
C17_Witness ==
    /\ api = "send"
    /\ pc = "Error_Handler"
    /\ fault = "overflow"
    /\ Len(trace) = 6
    /\ rxUnits >= 1

\* C19: in the read loop of WIFI_SPI_Receive every unit is stored at an even
\* cursor p with p + 1 < capacity, only those two bytes change, and the
\* cursor advances by 2 without wrapping.
C19_ReceiveWritesInBounds ==
    /\ [](pc = "rx_20" => Len(buffer) = size /\ cnt = 2 * rxUnits /\ cnt <= UINT16_MAX)
    /\ [][pc = "rx_20" /\ rxUnits' = rxUnits + 1
            => (/\ cnt % 2 = 0
                /\ cnt + 1 < size
                /\ cnt' = cnt + 2
                /\ Len(buffer') = size
                /\ buffer' = [buffer EXCEPT ![cnt + 1] = buffer'[cnt + 1],
                                            ![cnt + 2] = buffer'[cnt + 2]])]_vars

\* The last unit that fits was stored in a buffer of the largest (odd)
\* capacity: the cursor stands at 65534.
C19_Witness ==
    pc = "rx_20" /\ size = UINT16_MAX /\ cnt = UINT16_MAX - 1 /\ rxUnits = cnt \div 2

\* C20: the read loop of WIFI_SPI_Receive terminates whatever Ready does: it
\* transfers at most floor(capacity / 2) units, with Ready asserted after
\* that many it escalates, it returns only on a poll that sees Ready
\* de-asserted, and it always leaves the loop.
C20_ReceiveTerminates ==
    /\ [](pc = "rx_20" => rxUnits <= size \div 2)
    /\ [][pc = "rx_20" /\ ready /\ rxUnits = size \div 2 /\ (pc' # pc \/ cnt' # cnt)
            => pc' = "Error_Handler" /\ fault' = "overflow"]_vars
    /\ [][pc = "rx_20" /\ pc' = rxRet => ~ready]_vars
    /\ (pc = "rx_20") ~> (pc # "rx_20")

\* Ready stayed asserted until the buffer was full and the fault escalated.
C20_Witness ==
    /\ pc = "Error_Handler"
    /\ fault = "overflow"
    /\ size >= 2
    /\ rxUnits = size \div 2

----------------------------------------------------------------------------
\* Claims about WIFI_CreateNewNetwork (checked under SpecNet).

\* The text of the answer to the status query, as received.
Response == CStr(resp)

\* How many "," a text holds.
Commas(t) == Cardinality({i \in 1..Len(t) : t[i] = COMMA})

\* The characters strictly between the first and the second "," of a text.
Between(t) == SubSeq(AfterComma(t), 1, FirstComma(AfterComma(t)) - 1)

\* WIFI_CreateNewNetwork has returned.
CreateDone == api = "create" /\ pc = "main" /\ step = 5

\* C11 as stated: when WIFI_CreateNewNetwork has returned and the answer to
\* the status query held at least two commas, hwifi->ipAddress holds exactly
\* the characters between the first and the second of them, then nulls.
C11_AddressBetweenCommas ==
    CreateDone /\ HasNul(resp) /\ Commas(Response) >= 2
        => hwifi.ipAddress = Field(Between(Response))

\* The first five commands of WIFI_CreateNewNetwork by their first two
\* characters: "A1", "A2", "AS", "AD", "A?".
CommandOrder == <<<<65, 49>>, <<65, 50>>, <<65, 83>>, <<65, 68>>, <<65, 63>>>>

\* The first two characters of each command issued so far.
IssuedTags == [i \in 1..Len(issued) |-> SubSeq(issued[i], 1, 2)]

\* C12: WIFI_CreateNewNetwork issues A1, A2, AS, AD, A? in this order and has
\* issued exactly these five when it returns; a command is issued only when
\* the exchange before it has run through to its return, with one transmit;
\* and hwifi->ipAddress changes only after the fifth exchange has returned.
C12_FiveExchangesInOrder ==
    /\ [](api = "create"
            => /\ Len(issued) = step
               /\ step <= 5
               /\ IssuedTags = SubSeq(CommandOrder, 1, step))
    /\ [](CreateDone => IssuedTags = CommandOrder)
    /\ [](api = "create" /\ pc \in {"send_98", "send_102", "send_106", "rx_20", "send_112"}
            => bCmd = issued[step])
    /\ [][issued # <<>> /\ Len(issued') > Len(issued)
            => pc = "create_ret" /\ trace = ExchangeOrder /\ txCount = 1 /\ ~nss]_vars
    /\ [][hwifi'.ipAddress # hwifi.ipAddress
            => pc = "create_ret" /\ step = 5 /\ trace = ExchangeOrder]_vars

\* WIFI_CreateNewNetwork has returned after five exchanges and stored an
\* address.
C12_Witness ==
    CreateDone /\ Len(issued) = 5 /\ hwifi.ipAddress # ipOld /\ fault = "none"

\* C18 as stated: when the answer to the status query holds fewer than two
\* commas, WIFI_CreateNewNetwork escalates a protocol fault instead of
\* parsing it and leaves hwifi->ipAddress as it was.
C18_ShortResponseFaults ==
    /\ api = "create"
    /\ step = 5
    /\ trace = ExchangeOrder
    /\ pc # "create_ret"
    /\ HasNul(resp)
    /\ Response # <<>>
    /\ Commas(Response) < 2
    => pc = "Error_Handler" /\ fault = "protocol" /\ hwifi.ipAddress = ipOld

====
